---------------------------- MODULE Spec2Model ----------------------------
(***************************************************************************)
(* Checkout, settlement and coupon lifecycle of the HaatBazar backend      *)
(* (backend/controllers/payment.controller.js, coupon.controller.js).      *)
(*                                                                         *)
(* Every HTTP handler is an async function: it runs atomically up to an    *)
(* await on a store write and may interleave there with other handlers.    *)
(* A handler instance is a process p with a program counter pc[p] and its  *)
(* local variables loc[p]; when it answers, the response is in flight in   *)
(* loc[p] (pc[p] = "respond") until the client has it.  Money is kept in   *)
(* minor units (cents); a price of the request body is a decimal number,   *)
(* written here in thousandths of the major unit so that                   *)
(* Math.round(price * 100) really rounds.                                  *)
(***************************************************************************)
EXTENDS Integers, Sequences, FiniteSets, TLC

VARIABLES now, coupons, nextCode, sessions, orders, pc, loc,
          accounts, redis, signed, cart

vars == <<now, coupons, nextCode, sessions, orders, pc, loc,
          accounts, redis, signed, cart>>

\* the stores of the checkout handlers; the stores of the auth and cart handlers
shop == <<coupons, nextCode, sessions, orders>>
side == <<accounts, redis, signed, cart>>

-----------------------------------------------------------------------------
(* Bounds of the model *)

MaxTime == 2
MaxSessions == 1
MaxGiftSessions == 3
MaxOrders == 2
SeedExpiry == 1

(* Program constants *)

GiftThreshold == 20000
GiftPercent == 10
GiftDays == 30

Users == {"u1", "u2"}
Procs == {"p1", "p2"}

NoCode == 0
SeedCode == NoCode + 1
SeedPercent == 2 * GiftPercent

PriceScale == 10 * 100

Item(id, price, quantity) == [id |-> id, price |-> price, quantity |-> quantity]

\* 19.99 x 2 + 5.00 x 1;  100.004 x 2;  150.00 x 2;  5.00 x 0
Carts ==
  { << Item("a", 19990, 2), Item("b", 5000, 1) >>,
    << Item("c", 100004, 2) >>,
    << Item("d", 150000, 2) >>,
    << Item("e", 5000, 0) >> }

ProductInputs ==
  { [isArray |-> TRUE, items |-> c] : c \in Carts \cup { << >> } }
    \cup { [isArray |-> FALSE, items |-> << >>] }

-----------------------------------------------------------------------------
(* Pure helpers *)

\* Math.round(n / d) for n >= 0, d > 0: halves round up
Round(n, d) == (2 * n + d) \div (2 * d)

\* const amount = Math.round(product.price * 100)
UnitAmount(price) == Round(price * 100, PriceScale)

RECURSIVE SumPrices(_)
SumPrices(items) ==
  IF items = << >> THEN 0
  ELSE Head(items).price * Head(items).quantity + SumPrices(Tail(items))

\* the sum rounded once instead of each unit price
SumThenRound(items) == Round(SumPrices(items) * 100, PriceScale)

RECURSIVE SumAmounts(_)
\* totalAmount += amount * product.quantity, over products.map
SumAmounts(items) ==
  IF items = << >> THEN 0
  ELSE UnitAmount(Head(items).price) * Head(items).quantity + SumAmounts(Tail(items))

\* quantity: product.quantity || 1
LineQuantity(quantity) == IF quantity = 0 THEN 1 ELSE quantity

LineItems(items) ==
  [i \in DOMAIN items |->
     [unit_amount |-> UnitAmount(items[i].price),
      quantity |-> LineQuantity(items[i].quantity)]]

\* the discount cut off instead of rounded
DiscountTruncated(total, pct) == (total * pct) \div 100

\* Math.round((totalAmount * coupon.discountPercentage) / 100)
Discount(total, pct) == Round(total * pct, 100)

\* metadata.products: JSON.stringify(products.map(p => ({id, quantity, price})))
Snapshot(items) ==
  [i \in DOMAIN items |->
     [id |-> items[i].id, quantity |-> items[i].quantity, price |-> items[i].price]]

\* Order.products: products.map(p => ({product: p.id, quantity, price}))
OrderProducts(snapshot) ==
  [i \in DOMAIN snapshot |->
     [product |-> snapshot[i].id, quantity |-> snapshot[i].quantity,
      price |-> snapshot[i].price]]

\* minor units -> major units ( x / 100 ), as whole part and hundredths
ToMajor(minor) == [whole |-> minor \div 100, cents |-> minor % 100]

ToMinor(major) == major.whole * 100 + major.cents

\* the test without the length
IsArrayOnly(products) == products.isArray

\* !Array.isArray(products) || products.length === 0, negated
ValidProducts(products) == products.isArray /\ Len(products.items) # 0

-----------------------------------------------------------------------------
(* The payment gateway (external): what a session's amount_total is *)

RECURSIVE GatewaySubtotal(_)
GatewaySubtotal(lines) ==
  IF lines = << >> THEN 0
  ELSE Head(lines).unit_amount * Head(lines).quantity + GatewaySubtotal(Tail(lines))

GatewayAmountTotal(lines, percent_off) ==
  GatewaySubtotal(lines) - Round(GatewaySubtotal(lines) * percent_off, 100)

-----------------------------------------------------------------------------
(* The coupon store *)

\* Coupon.findOne({ code, userId, isActive: true })
FindActive(code, userId) ==
  { c \in coupons : c.code = code /\ c.userId = userId /\ c.isActive }

\* Coupon.findOne({ userId, isActive: true })
FindActiveOfUser(userId) == { c \in coupons : c.userId = userId /\ c.isActive }

\* filter { userId } of findOneAndDelete
FindOfUser(userId) == { c \in coupons : c.userId = userId }

\* the filter without the user
FindByCode(code, userId) == { c \in coupons : c.code = code }

\* filter { code, userId } of findOneAndUpdate
FindByCodeAndUser(code, userId) ==
  { c \in coupons : c.code = code /\ c.userId = userId }

\* the comparison turned around
IsExpiredReversed(coupon, t) == coupon.expirationDate > t

\* coupon.expirationDate < new Date()
IsExpired(coupon, t) == coupon.expirationDate < t

\* the update that changes nothing
KeptActive(c) == c

\* { isActive: false }
Deactivated(c) == [c EXCEPT !.isActive = FALSE]

\* a document of the Coupon schema: isActive defaults to true
NewCoupon(code, pct, exp, userId) ==
  [code |-> code, discountPercentage |-> pct, expirationDate |-> exp,
   userId |-> userId, isActive |-> TRUE]

Seed(u) == NewCoupon(SeedCode, SeedPercent, SeedExpiry, u)

\* newCoupon.save(): the store takes the row; it enforces no uniqueness
InsertCoupon(c) == coupons \cup {c}

\* validation of the Order schema at save: quantity >= 1, price >= 0
ValidOrder(o) ==
  \A i \in DOMAIN o.products : o.products[i].quantity >= 1 /\ o.products[i].price >= 0

\* newOrder.save(): the store appends the order; the session identifier is not a key
SaveOrder(o) == Append(orders, o)

-----------------------------------------------------------------------------
\* redis.get of a key that is not set
NoEntry == [set |-> FALSE]

Idle == [op |-> "none"]

\* res.status(status).json(body)
Resp(op, status, body) == [op |-> op, status |-> status, body |-> body]

Message(text) == [message |-> text]

Init ==
  /\ now = 0
  /\ coupons \in { {} } \cup { { Seed(u) } : u \in Users }
  /\ nextCode = SeedCode + 1
  /\ sessions = << >>
  /\ orders = << >>
  /\ pc = [p \in Procs |-> "idle"]
  /\ loc = [p \in Procs |-> Idle]
  /\ accounts = {}
  /\ redis = [u \in Users |-> NoEntry]
  /\ signed = {}
  /\ cart = [u \in Users |-> << >>]

\* handler slots are interchangeable: a request is taken by the first idle one
FirstIdle == IF pc["p1"] = "idle" THEN "p1" ELSE "p2"

Accepts(p) == pc[p] = "idle" /\ p = FirstIdle

Finish(p, r) ==
  /\ pc' = [pc EXCEPT ![p] = "respond"]
  /\ loc' = [loc EXCEPT ![p] = r]

\* the client has the response; the handler instance is gone
Reply(p) ==
  /\ pc[p] = "respond"
  /\ pc' = [pc EXCEPT ![p] = "idle"]
  /\ loc' = [loc EXCEPT ![p] = Idle]
  /\ UNCHANGED <<now, coupons, nextCode, sessions, orders>>
  /\ UNCHANGED side

Goto(p, label, l) ==
  /\ pc' = [pc EXCEPT ![p] = label]
  /\ loc' = [loc EXCEPT ![p] = l]
-----------------------------------------------------------------------------
(* createCheckoutSession *)

\* history: the codes of the coupons a user holds when a checkout starts
CodesOf(userId) == { c.code : c \in FindOfUser(userId) }

\* if (totalAmount >= 20000)
GiftDue(total) == total >= GiftThreshold

\* the lookup without the owner
CheckoutCouponAnyOwner(code, userId) ==
  IF code = NoCode THEN {} ELSE { c \in coupons : c.code = code /\ c.isActive }

\* the coupon the checkout applies: null without a code, else the lookup
CheckoutCoupon(code, userId) ==
  IF code = NoCode THEN {} ELSE FindActive(code, userId)

RECURSIVE SumDiscounted(_, _)
SumDiscounted(items, pct) ==
  IF items = << >> THEN 0
  ELSE LET a == UnitAmount(Head(items).price) * Head(items).quantity
       IN  a - Discount(a, pct) + SumDiscounted(Tail(items), pct)

\* the discount taken from every line item instead of from the sum
CheckoutTotalPerItem(items, found) ==
  IF found = {} THEN SumAmounts(items)
  ELSE SumDiscounted(items, (CHOOSE c \in found : TRUE).discountPercentage)

\* totalAmount after the coupon branch
CheckoutTotal(items, found) ==
  IF found = {} THEN SumAmounts(items)
  ELSE LET c == CHOOSE c \in found : TRUE
       IN  SumAmounts(items) - Discount(SumAmounts(items), c.discountPercentage)

\* discounts: coupon ? [{coupon: createStripeCoupon(percentage)}] : []
CheckoutPercentOff(found) ==
  IF found = {} THEN 0 ELSE (CHOOSE c \in found : TRUE).discountPercentage

\* the session the gateway records; quoted is the handler's own totalAmount
NewSession(userId, code, items, found) ==
  [userId |-> userId,
   couponCode |-> code,
   products |-> Snapshot(items),
   percent_off |-> CheckoutPercentOff(found),
   amount_total |-> GatewayAmountTotal(LineItems(items), CheckoutPercentOff(found)),
   payment_status |-> "unpaid",
   quoted |-> CheckoutTotal(items, found)]

\* res.status(200).json({ id: session.id, totalAmount: totalAmount / 100 })
CheckoutOk(sid, total) ==
  Resp("createCheckoutSession", 200, [id |-> sid, totalAmount |-> ToMajor(total)])

CheckoutError == Resp("createCheckoutSession", 500, Message("Error processing checkout"))

\* the user's coupon removed before a gateway call that fails
CreateCheckoutSessionGiftFirst(p, userId, products, code) ==
  /\ Accepts(p)
  /\ coupons' = coupons \ FindOfUser(userId)
  /\ Finish(p, CheckoutError)
  /\ UNCHANGED <<now, nextCode, sessions, orders, side>>

CreateCheckoutSession(p, userId, products, code) ==
  /\ Accepts(p)
  /\ IF ~ValidProducts(products)
     THEN /\ Finish(p, Resp("createCheckoutSession", 400,
                           Message("Invalid or empty products array")))
          /\ UNCHANGED <<now, coupons, nextCode, sessions, orders>>
     ELSE LET found == CheckoutCoupon(code, userId)
              total == CheckoutTotal(products.items, found)
          IN  \E gatewayOk \in BOOLEAN :
                IF ~gatewayOk
                THEN /\ Finish(p, CheckoutError)
                     /\ UNCHANGED <<now, coupons, nextCode, sessions, orders>>
                ELSE /\ sessions' = Append(sessions,
                                      NewSession(userId, code, products.items, found))
                     /\ IF GiftDue(total)
                        THEN Goto(p, "cnc_delete",
                                  [op |-> "createCheckoutSession", userId |-> userId,
                                   total |-> total, sid |-> Len(sessions) + 1,
                                   prior |-> CodesOf(userId)])
                        ELSE Finish(p, CheckoutOk(Len(sessions) + 1, total))
                     /\ UNCHANGED <<now, coupons, nextCode, orders>>
  /\ UNCHANGED side

\* createNewCoupon: await Coupon.findOneAndDelete({ userId })
CncDelete(p) ==
  /\ pc[p] = "cnc_delete"
  /\ \E storeOk \in BOOLEAN :
       IF ~storeOk
       THEN /\ Finish(p, CheckoutError)
            /\ UNCHANGED coupons
       ELSE /\ IF FindOfUser(loc[p].userId) = {}
               THEN UNCHANGED coupons
               ELSE \E c \in FindOfUser(loc[p].userId) : coupons' = coupons \ {c}
            /\ Goto(p, "cnc_insert", loc[p])
  /\ UNCHANGED <<now, nextCode, sessions, orders>>
  /\ UNCHANGED side

\* createNewCoupon: new Coupon({...}); await newCoupon.save(); then the response
CncInsert(p) ==
  /\ pc[p] = "cnc_insert"
  /\ \E storeOk \in BOOLEAN :
       IF ~storeOk
       THEN /\ Finish(p, CheckoutError)
            /\ UNCHANGED <<coupons, nextCode>>
       ELSE /\ coupons' =
                 InsertCoupon(NewCoupon(nextCode, GiftPercent, now + GiftDays, loc[p].userId))
            /\ nextCode' = nextCode + 1
            /\ Finish(p, CheckoutOk(loc[p].sid, loc[p].total))
  /\ UNCHANGED <<now, sessions, orders>>
  /\ UNCHANGED side

-----------------------------------------------------------------------------
(* checkoutSuccess *)

\* the status never looked at
IsPaidAlways(session) == TRUE

\* session.payment_status === "paid"
IsPaid(session) == session.payment_status = "paid"

\* the handler returns without calling res: the request is left unanswered
NoResponse == Resp("checkoutSuccess", 0, Message(""))

SettleError ==
  Resp("checkoutSuccess", 500, Message("Error processing successful checkout"))

\* const session = await stripe.checkout.sessions.retrieve(sessionId)
CheckoutSuccess(p, sid) ==
  /\ Accepts(p)
  /\ \E gatewayOk \in BOOLEAN :
       IF ~gatewayOk \/ sid \notin DOMAIN sessions
       THEN Finish(p, SettleError)
       ELSE IF ~IsPaid(sessions[sid])
       THEN Finish(p, NoResponse)
       ELSE IF sessions[sid].couponCode # NoCode
       THEN Goto(p, "cs_deactivate", [op |-> "checkoutSuccess", sid |-> sid])
       ELSE Goto(p, "cs_save", [op |-> "checkoutSuccess", sid |-> sid])
  /\ UNCHANGED <<now, coupons, nextCode, sessions, orders>>
  /\ UNCHANGED side

\* await Coupon.findOneAndUpdate({ code, userId }, { isActive: false })
CsDeactivate(p) ==
  /\ pc[p] = "cs_deactivate"
  /\ LET s == sessions[loc[p].sid]
         match == FindByCodeAndUser(s.couponCode, s.userId)
     IN  \E storeOk \in BOOLEAN :
           IF ~storeOk
           THEN /\ Finish(p, SettleError)
                /\ UNCHANGED coupons
           ELSE /\ IF match = {}
                   THEN UNCHANGED coupons
                   ELSE \E c \in match :
                          coupons' = (coupons \ {c}) \cup {Deactivated(c)}
                /\ Goto(p, "cs_save", loc[p])
  /\ UNCHANGED <<now, nextCode, sessions, orders>>
  /\ UNCHANGED side

\* new Order({...})
NewOrder(sid) ==
  [user |-> sessions[sid].userId,
   products |-> OrderProducts(sessions[sid].products),
   totalAmount |-> ToMajor(sessions[sid].amount_total),
   stripeSessionId |-> sid]

\* JSON.parse(metadata.products); new Order; await newOrder.save(); the response.
\* A throw of JSON.parse, of validation or of the store ends in the catch.
CsSave(p) ==
  /\ pc[p] = "cs_save"
  /\ \E storeOk \in BOOLEAN :
       IF ~storeOk \/ ~ValidOrder(NewOrder(loc[p].sid))
       THEN /\ Finish(p, SettleError)
            /\ UNCHANGED orders
       ELSE /\ Len(orders) < MaxOrders
            /\ orders' = SaveOrder(NewOrder(loc[p].sid))
            /\ Finish(p, Resp("checkoutSuccess", 200,
                           [success |-> TRUE, orderId |-> Len(orders) + 1]))
  /\ UNCHANGED <<now, coupons, nextCode, sessions>>
  /\ UNCHANGED side

-----------------------------------------------------------------------------
(* validateCoupon, getCoupon *)

\* const coupon = await Coupon.findOne({ code, userId, isActive: true })
ValidateCoupon(p, userId, code) ==
  /\ Accepts(p)
  /\ \E storeOk \in BOOLEAN :
       IF ~storeOk
       THEN Finish(p, Resp("validateCoupon", 500, Message("Server error")))
       ELSE IF FindActive(code, userId) = {}
       THEN Finish(p, Resp("validateCoupon", 404, Message("Coupon not found")))
       ELSE \E c \in FindActive(code, userId) :
              Goto(p, "vc_check", [op |-> "validateCoupon", doc |-> c])
  /\ UNCHANGED <<now, coupons, nextCode, sessions, orders>>
  /\ UNCHANGED side

\* the expiry test, coupon.save(), and the response
VcCheck(p) ==
  /\ pc[p] = "vc_check"
  /\ LET doc == loc[p].doc
         stored == { c \in coupons : c.code = doc.code }
     IN  IF IsExpired(doc, now)
         THEN \E storeOk \in BOOLEAN :
                IF ~storeOk \/ stored = {}
                THEN /\ Finish(p, Resp("validateCoupon", 500, Message("Server error")))
                     /\ UNCHANGED coupons
                ELSE /\ coupons' = (coupons \ stored) \cup { Deactivated(c) : c \in stored }
                     /\ Finish(p, Resp("validateCoupon", 404, Message("Coupon expired")))
         ELSE /\ Finish(p, Resp("validateCoupon", 200,
                                [message |-> "Coupon is valid", code |-> doc.code,
                                 discountPercentage |-> doc.discountPercentage]))
              /\ UNCHANGED coupons
  /\ UNCHANGED <<now, nextCode, sessions, orders>>
  /\ UNCHANGED side

\* const coupon = await Coupon.findOne({ userId, isActive: true }); res.json(coupon || null)
GetCoupon(p, userId) ==
  /\ Accepts(p)
  /\ \E storeOk \in BOOLEAN :
       IF ~storeOk
       THEN Finish(p, Resp("getCoupon", 500, Message("Server error")))
       ELSE IF FindActiveOfUser(userId) = {}
       THEN Finish(p, Resp("getCoupon", 200, [code |-> NoCode]))
       ELSE \E c \in FindActiveOfUser(userId) :
              Finish(p, Resp("getCoupon", 200, [code |-> c.code]))
  /\ UNCHANGED <<now, coupons, nextCode, sessions, orders>>
  /\ UNCHANGED side

-----------------------------------------------------------------------------
(* The environment: the customer pays at the gateway; time passes *)

Pay(sid) ==
  /\ sid \in DOMAIN sessions
  /\ sessions[sid].payment_status = "unpaid"
  /\ sessions' = [sessions EXCEPT ![sid].payment_status = "paid"]
  /\ UNCHANGED <<now, coupons, nextCode, orders, pc, loc>>
  /\ UNCHANGED side

Tick ==
  /\ now < MaxTime
  /\ now' = now + 1
  /\ UNCHANGED <<coupons, nextCode, sessions, orders, pc, loc>>
  /\ UNCHANGED side

RequestCodes == {NoCode, SeedCode} \cup { c.code : c \in coupons }

\* the valid request bodies whose cart is in S
InputsOf(S) == { [isArray |-> TRUE, items |-> c] : c \in S }

MaxItems == 2

PricingPrices == {0, 1004, 1996, 5000, 19990}

PricingItems == { Item("x", price, quantity) : price \in PricingPrices, quantity \in 1..2 }

PricingCarts == UNION { [1..n -> PricingItems] : n \in 1..MaxItems }

SmallCarts == { c \in Carts : SumAmounts(c) <= GiftThreshold }

LargeCarts == { c \in Carts : SumAmounts(c) > GiftThreshold }

-----------------------------------------------------------------------------
(* Gift issuance: checkouts of two concurrent handlers *)

NextGift ==
  \/ \E p \in Procs, u \in Users, products \in ProductInputs, code \in RequestCodes :
       Len(sessions) < MaxGiftSessions /\ CreateCheckoutSession(p, u, products, code)
  \/ \E p \in Procs : CncDelete(p)
  \/ \E p \in Procs : CncInsert(p)
  \/ \E p \in Procs : Reply(p)

SpecGift == Init /\ [][NextGift]_vars

(* Settlement: checkout, payment at the gateway, checkoutSuccess *)

NextSettle ==
  \/ \E p \in Procs, u \in Users, products \in InputsOf(SmallCarts), code \in RequestCodes :
       Len(sessions) < MaxSessions /\ CreateCheckoutSession(p, u, products, code)
  \/ \E p \in Procs : CncDelete(p)
  \/ \E p \in Procs : CncInsert(p)
  \/ \E sid \in 1..MaxSessions : Pay(sid)
  \/ \E p \in Procs, sid \in 1..MaxSessions : CheckoutSuccess(p, sid)
  \/ \E p \in Procs : CsDeactivate(p)
  \/ \E p \in Procs : CsSave(p)
  \/ \E p \in Procs : Reply(p)

SpecSettle == Init /\ [][NextSettle]_vars

(* Coupon lifecycle: validation and lookups while time passes *)

NextCoupon ==
  \/ \E p \in Procs, u \in Users, products \in InputsOf(LargeCarts), code \in RequestCodes :
       Len(sessions) < MaxSessions /\ CreateCheckoutSession(p, u, products, code)
  \/ \E p \in Procs : CncDelete(p)
  \/ \E p \in Procs : CncInsert(p)
  \/ \E p \in Procs, u \in Users, code \in RequestCodes \ {NoCode} : ValidateCoupon(p, u, code)
  \/ \E p \in Procs : VcCheck(p)
  \/ \E p \in Procs, u \in Users : GetCoupon(p, u)
  \/ \E p \in Procs : Reply(p)
  \/ Tick

SpecCoupon == Init /\ [][NextCoupon]_vars

(* Pricing: one checkout without a coupon, over all small carts *)

NextPricing ==
  \/ \E p \in Procs, u \in Users, products \in InputsOf(PricingCarts) :
       sessions = << >> /\ CreateCheckoutSession(p, u, products, NoCode)
  \/ \E p \in Procs : Reply(p)

SpecPricing == Init /\ [][NextPricing]_vars

(* Checkout requests: one checkout over all small carts and the malformed
   bodies, for a user who may hold a coupon of any percentage *)

DiscountPercents == {0, 10, 33, 50, 100}

InitRequest ==
  /\ now = 0
  /\ coupons \in { {} } \cup { { NewCoupon(SeedCode, d, SeedExpiry, u) } :
                                d \in DiscountPercents, u \in Users }
  /\ nextCode = SeedCode + 1
  /\ sessions = << >>
  /\ orders = << >>
  /\ pc = [p \in Procs |-> "idle"]
  /\ loc = [p \in Procs |-> Idle]
  /\ accounts = {}
  /\ redis = [u \in Users |-> NoEntry]
  /\ signed = {}
  /\ cart = [u \in Users |-> << >>]

RequestInputs == InputsOf(PricingCarts) \cup (ProductInputs \ InputsOf(Carts))

NextRequest ==
  \/ /\ sessions = << >>
     /\ \E p \in Procs, u \in Users, products \in RequestInputs, code \in RequestCodes :
          CreateCheckoutSession(p, u, products, code)
  \/ \E p \in Procs : Reply(p)

SpecRequest == InitRequest /\ [][NextRequest]_vars

-----------------------------------------------------------------------------
(* signup, login, logout, refreshToken (coupon.controller.js).  A refresh token
   is the signed payload { userId, iat, exp }: two tokens signed for one user at
   the same clock value are the same token.  The clock counts days, and time
   passes between requests. *)

MaxAuthTime == 7
MaxTokens == 2

RefreshDays == 7

\* jwt.sign({ userId }, REFRESH_TOKEN_SECRET, { expiresIn: "7d" })
RefreshTokenOf(userId, t) == [userId |-> userId, iat |-> t, exp |-> t + RefreshDays]

\* no cookie in the request; no cookie set by the response
NoToken == [userId |-> "none", iat |-> 0, exp |-> 0]

\* a cookie value that was not signed with the secret
Forged == [userId |-> "u1", iat |-> 0, exp |-> MaxAuthTime + RefreshDays + 1]

\* jwt.sign({ userId }, ACCESS_TOKEN_SECRET, { expiresIn: "15m" })
AccessTokenOf(userId, t) == [userId |-> userId, iat |-> t, exp |-> t]

\* jwt.verify(refreshToken, REFRESH_TOKEN_SECRET) does not throw
Verifies(token, t) == token \in signed /\ t < token.exp

\* redis.set(key, refreshToken, "EX", 7 days)
RedisEntry(token, t) == [set |-> TRUE, value |-> token, expires |-> t + RefreshDays]

\* the lookup that answers with the presented token itself
RedisGetEcho(userId, t, presented) == presented

\* redis.get(key): null for a key that is not set or has expired
RedisGet(userId, t, presented) ==
  IF redis[userId].set /\ t < redis[userId].expires THEN redis[userId].value ELSE NoToken

\* the response with the cookies it sets
AuthResp(op, status, text, error, access, refresh) ==
  Resp(op, status, [message |-> text, error |-> error,
                    accessToken |-> access, refreshToken |-> refresh])

\* signup: User.findOne, User.create, generateTokens
Signup(p, userId) ==
  /\ Accepts(p)
  /\ \E storeOk \in BOOLEAN :
       IF ~storeOk
       THEN /\ Finish(p, AuthResp("signup", 500, "error", "store", NoToken, NoToken))
            /\ UNCHANGED <<accounts, signed>>
       ELSE IF userId \in accounts
       THEN /\ Finish(p, AuthResp("signup", 400, "User already exists", "", NoToken, NoToken))
            /\ UNCHANGED <<accounts, signed>>
       ELSE /\ accounts' = accounts \cup {userId}
            /\ signed' = signed \cup {RefreshTokenOf(userId, now)}
            /\ Goto(p, "auth_store", [op |-> "signup", status |-> 201, userId |-> userId,
                                      refreshToken |-> RefreshTokenOf(userId, now),
                                      accessToken |-> AccessTokenOf(userId, now)])
  /\ UNCHANGED <<now, shop, redis, cart>>

\* login: User.findOne, comparePassword, generateTokens
Login(p, userId, passwordOk) ==
  /\ Accepts(p)
  /\ \E storeOk \in BOOLEAN :
       IF ~storeOk
       THEN /\ Finish(p, AuthResp("login", 500, "error", "store", NoToken, NoToken))
            /\ UNCHANGED signed
       ELSE IF userId \in accounts /\ passwordOk
       THEN /\ signed' = signed \cup {RefreshTokenOf(userId, now)}
            /\ Goto(p, "auth_store", [op |-> "login", status |-> 200, userId |-> userId,
                                      refreshToken |-> RefreshTokenOf(userId, now),
                                      accessToken |-> AccessTokenOf(userId, now)])
       ELSE /\ Finish(p, AuthResp("login", 400, "Invalid email or password", "",
                                  NoToken, NoToken))
            /\ UNCHANGED signed
  /\ UNCHANGED <<now, shop, accounts, redis, cart>>

\* await storeRefreshToken(user._id, refreshToken); setCookies; the response
AuthStore(p) ==
  /\ pc[p] = "auth_store"
  /\ \E storeOk \in BOOLEAN :
       IF ~storeOk
       THEN /\ Finish(p, AuthResp(loc[p].op, 500, "error", "store", NoToken, NoToken))
            /\ UNCHANGED redis
       ELSE /\ redis' = [redis EXCEPT ![loc[p].userId] = RedisEntry(loc[p].refreshToken, now)]
            /\ Finish(p, AuthResp(loc[p].op, loc[p].status, "user", "",
                                  loc[p].accessToken, loc[p].refreshToken))
  /\ UNCHANGED <<now, shop, accounts, signed, cart>>

\* logout: jwt.verify of the cookie, redis.del, clearCookie
Logout(p, cookie) ==
  /\ Accepts(p)
  /\ IF cookie = NoToken
     THEN /\ Finish(p, AuthResp("logout", 200, "Logged out successfully", "", NoToken, NoToken))
          /\ UNCHANGED redis
     ELSE IF ~Verifies(cookie, now)
     THEN /\ Finish(p, AuthResp("logout", 500, "Server error", "jwt", NoToken, NoToken))
          /\ UNCHANGED redis
     ELSE \E storeOk \in BOOLEAN :
            IF ~storeOk
            THEN /\ Finish(p, AuthResp("logout", 500, "Server error", "store", NoToken, NoToken))
                 /\ UNCHANGED redis
            ELSE /\ redis' = [redis EXCEPT ![cookie.userId] = NoEntry]
                 /\ Finish(p, AuthResp("logout", 200, "Logged out successfully", "",
                                       NoToken, NoToken))
  /\ UNCHANGED <<now, shop, accounts, signed, cart>>

\* refreshToken: jwt.verify of the cookie, redis.get, the comparison, the cookie
RefreshToken(p, cookie) ==
  /\ Accepts(p)
  /\ IF cookie = NoToken
     THEN Finish(p, AuthResp("refreshToken", 401, "No refresh token provided", "",
                             NoToken, NoToken))
     ELSE IF ~Verifies(cookie, now)
     THEN Finish(p, AuthResp("refreshToken", 500, "Server error", "jwt", NoToken, NoToken))
     ELSE \E storeOk \in BOOLEAN :
            IF ~storeOk
            THEN Finish(p, AuthResp("refreshToken", 500, "Server error", "store",
                                    NoToken, NoToken))
            ELSE IF RedisGet(cookie.userId, now, cookie) # cookie
            THEN Finish(p, AuthResp("refreshToken", 401, "Invalid refresh token", "",
                                    NoToken, NoToken))
            ELSE Finish(p, AuthResp("refreshToken", 200, "Token refreshed successfully", "",
                                    AccessTokenOf(cookie.userId, now), NoToken))
  /\ UNCHANGED <<now, shop, accounts, redis, signed, cart>>

\* a day passes while no request is being handled
Elapse ==
  /\ now < MaxAuthTime
  /\ \A p \in Procs : pc[p] = "idle"
  /\ now' = now + 1
  /\ UNCHANGED <<shop, pc, loc, side>>

\* the cookie a request can carry: none, a token issued before, or a forged one
Cookies == signed \cup {NoToken, Forged}

NextAuth ==
  \/ /\ Cardinality(signed) < MaxTokens
     /\ \E p \in Procs, u \in Users : Signup(p, u)
  \/ /\ Cardinality(signed) < MaxTokens
     /\ \E p \in Procs, u \in Users, passwordOk \in BOOLEAN : Login(p, u, passwordOk)
  \/ \E p \in Procs : AuthStore(p)
  \/ \E p \in Procs, cookie \in Cookies : Logout(p, cookie)
  \/ \E p \in Procs, cookie \in Cookies : RefreshToken(p, cookie)
  \/ \E p \in Procs : Reply(p)
  \/ Elapse

SpecAuth == Init /\ [][NextAuth]_vars

-----------------------------------------------------------------------------
(* addToCart, removeAllFromCart, updateQuantity (cart.controller.js).  req.user
   is the user document loaded for the request; a handler changes its cartItems
   and saves it, and answers with the cart. *)

MaxQuantity == 3

Products == {"x", "y"}

\* the users whose requests reach the cart handlers
Shoppers == {"u1"}

\* a request without a product id
NoProduct == ""

\* the quantities a request body can carry
Quantities == -1 .. 2

\* the search that finds nothing
FindNone(items, productId) == {}

\* user.cartItems.find((item) => item.id === productId), as the index found
FindItem(items, productId) ==
  LET hits == { i \in DOMAIN items : items[i].id = productId }
  IN  IF hits = {} THEN {} ELSE { CHOOSE i \in hits : \A j \in hits : i <= j }

\* user.cartItems.filter((item) => item.id !== productId)
WithoutProduct(items, productId) ==
  SelectSeq(items, LAMBDA item : item.id # productId)

CartResp(op, items) == Resp(op, 200, [cartItems |-> items])

CartError(op) == Resp(op, 500, Message("Server error"))

\* await user.save(), then res.json(user.cartItems); a rejected save ends in the catch
SaveCart(p, op, userId, items) ==
  \E storeOk \in BOOLEAN :
    IF ~storeOk
    THEN /\ Finish(p, CartError(op))
         /\ UNCHANGED cart
    ELSE /\ cart' = [cart EXCEPT ![userId] = items]
         /\ Finish(p, CartResp(op, items))

AddToCart(p, userId, productId) ==
  /\ Accepts(p)
  /\ LET items == cart[userId]
         existing == FindItem(items, productId)
     IN  IF existing # {}
         THEN LET i == CHOOSE i \in existing : TRUE
              IN  SaveCart(p, "addToCart", userId,
                           [items EXCEPT ![i].quantity = items[i].quantity + 1])
         ELSE SaveCart(p, "addToCart", userId,
                       Append(items, [id |-> productId, quantity |-> 1]))
  /\ UNCHANGED <<now, shop, accounts, redis, signed>>

RemoveAllFromCart(p, userId, productId) ==
  /\ Accepts(p)
  /\ IF productId = NoProduct
     THEN SaveCart(p, "removeAllFromCart", userId, << >>)
     ELSE SaveCart(p, "removeAllFromCart", userId, WithoutProduct(cart[userId], productId))
  /\ UNCHANGED <<now, shop, accounts, redis, signed>>

UpdateQuantity(p, userId, productId, quantity) ==
  /\ Accepts(p)
  /\ LET items == cart[userId]
         existing == FindItem(items, productId)
     IN  IF existing # {}
         THEN IF quantity = 0
              THEN SaveCart(p, "updateQuantity", userId, WithoutProduct(items, productId))
              ELSE LET i == CHOOSE i \in existing : TRUE
                   IN  SaveCart(p, "updateQuantity", userId,
                                [items EXCEPT ![i].quantity = quantity])
         ELSE /\ Finish(p, Resp("updateQuantity", 404, Message("Product not found")))
              /\ UNCHANGED cart
  /\ UNCHANGED <<now, shop, accounts, redis, signed>>

\* no entry of the user's cart has reached the largest quantity modelled
BelowMaxQuantity(userId) ==
  \A i \in DOMAIN cart[userId] : cart[userId][i].quantity < MaxQuantity

NextCart ==
  \/ \E p \in Procs, u \in Shoppers, productId \in Products :
       BelowMaxQuantity(u) /\ AddToCart(p, u, productId)
  \/ \E p \in Procs, u \in Shoppers, productId \in Products \cup {NoProduct} :
       RemoveAllFromCart(p, u, productId)
  \/ \E p \in Procs, u \in Shoppers, productId \in Products, quantity \in Quantities :
       UpdateQuantity(p, u, productId, quantity)
  \/ \E p \in Procs : Reply(p)

SpecCart == Init /\ [][NextCart]_vars

-----------------------------------------------------------------------------
(* Properties *)

\* a handler instance p answers in this step
Answers(p, op) == pc[p] # "respond" /\ pc'[p] = "respond" /\ loc'[p].op = op

\* C1: each payment-session identifier produces at most one Order: no two
\* Order records carry the same stripeSessionId
C1_OneOrderPerSession ==
  \A i, j \in DOMAIN orders :
    orders[i].stripeSessionId = orders[j].stripeSessionId => i = j

\* C2: under any interleaving of the delete and insert steps of gift issuance,
\* a user never has more than one coupon with active = true
C2_AtMostOneActive ==
  \A u \in Users : Cardinality({ c \in coupons : c.userId = u /\ c.isActive }) <= 1

\* C3: a checkout session is created with a discount only if the coupon of that
\* code and user is, at the time of the call, active and not yet at its expiration
C3_DiscountOnlyBeforeExpiry ==
  [][ Len(sessions') > Len(sessions) =>
        LET s == sessions'[Len(sessions')]
        IN  (s.percent_off # 0 \/ s.quoted # SumAmounts(s.products)) =>
              \E c \in coupons :
                /\ c.code = s.couponCode /\ c.userId = s.userId
                /\ c.isActive /\ now < c.expirationDate ]_vars

\* validateCoupon(u, code) answers in this step: not found at the lookup, or
\* valid / expired / server error after the expiry test
VcAnswers(p, u, code) ==
  \/ ValidateCoupon(p, u, code) /\ pc'[p] = "respond"
  \/ /\ pc[p] = "vc_check"
     /\ loc[p].doc.code = code /\ loc[p].doc.userId = u
     /\ VcCheck(p)

\* the coupon of that code has its expiration in the past
PastExpiration(p, code) ==
  \/ \E c \in coupons : c.code = code /\ c.expirationDate < now
  \/ pc[p] = "vc_check" /\ loc[p].doc.code = code /\ loc[p].doc.expirationDate < now

NoActive(store, code) == ~ \E c \in store : c.code = code /\ c.isActive

\* the caller u owns a coupon of that code whose expiration is in the past
OwnsPastExpiration(p, u, code) ==
  \/ \E c \in coupons : c.code = code /\ c.userId = u /\ c.expirationDate < now
  \/ pc[p] = "vc_check" /\ loc[p].doc.code = code /\ loc[p].doc.expirationDate < now

\* C4 (as stated): every validateCoupon call by its owner for a coupon whose
\* expiration is in the past, unless the store fails, returns Expired and leaves
\* the coupon's active flag false
C4_ExpiredAlwaysReported ==
  [][ \A p \in Procs, u \in Users, code \in 1..nextCode :
        VcAnswers(p, u, code) /\ OwnsPastExpiration(p, u, code) /\ loc'[p].status # 500 =>
          /\ loc'[p].body.message = "Coupon expired"
          /\ NoActive(coupons', code) ]_vars

\* C4 (amended): a validateCoupon call for a coupon whose expiration is in the
\* past never returns valid; when it returns Expired the coupon is inactive, and
\* a coupon that is inactive (or gone) is never active again in any later state
C4_ExpiredNeverValid ==
  [][ /\ \A p \in Procs, u \in Users, code \in 1..nextCode :
           VcAnswers(p, u, code) /\ PastExpiration(p, code) =>
             /\ loc'[p].status # 200
             /\ loc'[p].body.message \in {"Coupon expired", "Coupon not found", "Server error"}
             /\ loc'[p].body.message = "Coupon expired" => NoActive(coupons', code)
             /\ loc'[p].body.message = "Coupon not found" => FindActive(code, u) = {}
      /\ \A code \in 1..(nextCode - 1) :
           NoActive(coupons, code) => NoActive(coupons', code) ]_vars

\* one caller has been told Expired, and a second caller's validation of the
\* same, now inactive, coupon has been answered as well
C4_Witness ==
  /\ pc["p1"] = "respond" /\ loc["p1"].op = "validateCoupon"
  /\ loc["p1"].body.message = "Coupon expired"
  /\ pc["p2"] = "respond" /\ loc["p2"].op = "validateCoupon"
  /\ loc["p2"].body.message = "Coupon not found"
  /\ \E c \in coupons : c.code = SeedCode /\ ~c.isActive /\ c.expirationDate < now

\* C5: when gift-coupon issuance (its delete or its insert) fails after the
\* gateway session was created, the checkout still answers with the success
\* response carrying the session identifier and the total
C5_GiftFailureSwallowed ==
  [][ \A p \in Procs :
        pc[p] \in {"cnc_delete", "cnc_insert"} /\ pc'[p] = "respond" =>
          loc'[p] = CheckoutOk(loc[p].sid, loc[p].total) ]_vars

\* the unit price in minor units, to the nearest cent
Cents(price) == (price + 5) \div 10

\* the sum over line items i..n of quantity x unit price, in minor units
RECURSIVE LineSum(_, _)
LineSum(lines, i) ==
  IF i > Len(lines) THEN 0
  ELSE lines[i].quantity * Cents(lines[i].price) + LineSum(lines, i + 1)

\* the sum over line items i..n of quantity x unit price as the Order stores it,
\* in thousandths of the major unit
RECURSIVE StoredSum(_, _)
StoredSum(lines, i) ==
  IF i > Len(lines) THEN 0
  ELSE lines[i].quantity * lines[i].price + StoredSum(lines, i + 1)

C7_UnpaidNoPersistence ==
  [][ /\ \A p \in Procs, sid \in DOMAIN sessions :
           CheckoutSuccess(p, sid) /\ sessions[sid].payment_status # "paid" =>
             /\ pc'[p] = "respond"
             /\ coupons' = coupons /\ orders' = orders
      /\ \A i \in DOMAIN orders' :
           /\ orders'[i].stripeSessionId \in DOMAIN sessions'
           /\ sessions'[orders'[i].stripeSessionId].payment_status = "paid" ]_vars

\* a settlement of a session not yet paid has ended without a response and
\* without an order; the session was paid afterwards and then settled
C7_Witness ==
  /\ \E p \in Procs : pc[p] = "respond" /\ loc[p] = NoResponse
  /\ Len(orders) = 1

\* C8: a successful checkout whose final total is >= 20000 minor units creates
\* exactly one new gift coupon for the requesting user (10%, active) and leaves
\* no coupon that user held before the call; one below 20000 leaves the Coupon
\* store unchanged
C8_GiftReplacesPrior ==
  [][ \A p \in Procs :
        Answers(p, "createCheckoutSession") /\ loc'[p].status = 200 =>
          LET u == sessions'[loc'[p].body.id].userId
              issued == coupons' \ coupons
          IN  IF ToMinor(loc'[p].body.totalAmount) >= 20000
              THEN /\ Cardinality(issued) = 1
                   /\ \A g \in issued :
                        g.userId = u /\ g.discountPercentage = 10 /\ g.isActive
                   /\ \A c \in coupons' : c.userId = u => c.code \notin loc[p].prior
              ELSE coupons' = coupons ]_vars

\* C9: the deactivation step of checkoutSuccess leaves the coupon of the
\* metadata's code and user in the store with active = false and changes no
\* other coupon (nothing at all when no coupon matches), and a settlement that
\* answers success has persisted the Order of its session
C9_DeactivateNotDelete ==
  [][ \A p \in Procs :
        /\ pc[p] = "cs_deactivate" /\ pc'[p] = "cs_save" =>
             LET s == sessions[loc[p].sid]
                 used == { c \in coupons : c.code = s.couponCode /\ c.userId = s.userId }
             IN  /\ \A c \in coupons \ used : c \in coupons'
                 /\ \A c \in used : [c EXCEPT !.isActive = FALSE] \in coupons'
                 /\ \A c \in coupons' :
                      c.code = s.couponCode /\ c.userId = s.userId => ~c.isActive
                 /\ Cardinality(coupons') = Cardinality(coupons)
                 /\ used = {} => coupons' = coupons
        /\ Answers(p, "checkoutSuccess") /\ loc'[p].status = 200 =>
             /\ pc[p] = "cs_save"
             /\ Len(orders') = Len(orders) + 1
             /\ orders'[Len(orders')].stripeSessionId = loc[p].sid
             /\ loc'[p].body.orderId = Len(orders')
             /\ coupons' = coupons ]_vars

\* a settlement has answered success for a session with a discount, and the
\* coupon it used is still in the store, deactivated
C9_Witness ==
  \E p \in Procs :
    /\ pc[p] = "respond" /\ loc[p].op = "checkoutSuccess" /\ loc[p].status = 200
    /\ LET s == sessions[orders[loc[p].body.orderId].stripeSessionId]
       IN  /\ s.percent_off # 0
           /\ \E c \in coupons :
                c.code = s.couponCode /\ c.userId = s.userId /\ ~c.isActive

\* the permutations of 1..n
Perms(n) == { f \in [1..n -> 1..n] : \A i, j \in 1..n : f[i] = f[j] => i = j }

\* C10: without a coupon the total of a cart is the sum over its items of
\* round(price x 100) x quantity, the same for every order of the items
C10_PricingDeterminism ==
  \A sid \in DOMAIN sessions :
    LET s == sessions[sid]
        n == Len(s.products)
    IN  s.couponCode = NoCode =>
          /\ s.quoted = LineSum(s.products, 1)
          /\ \A f \in Perms(n) :
               SumAmounts([i \in 1..n |-> s.products[f[i]]]) = s.quoted

\* the cart 19.99 x 2, 5.00 x 1 has been priced at 4498 minor units
C10_Witness ==
  \E sid \in DOMAIN sessions :
    /\ Len(sessions[sid].products) = 2
    /\ sessions[sid].products[1].price = 19990 /\ sessions[sid].products[1].quantity = 2
    /\ sessions[sid].products[2].price = 5000 /\ sessions[sid].products[2].quantity = 1
    /\ sessions[sid].quoted = 4498

\* C11: when the checkout finds the supplied coupon, with item-summed total T and
\* discount d% the final total is T - round(T x d / 100), taken once from the
\* sum, never negative, and it is the total the response carries
C11_DiscountOnce ==
  /\ \A sid \in DOMAIN sessions :
       LET s == sessions[sid]
           T == LineSum(s.products, 1)
       IN  \A c \in coupons :
             c.code = s.couponCode /\ c.userId = s.userId /\ c.isActive =>
               /\ s.quoted = T - (T * c.discountPercentage + 50) \div 100
               /\ s.quoted >= 0
               /\ s.percent_off = c.discountPercentage
  /\ \A p \in Procs :
       pc[p] = "respond" /\ loc[p].op = "createCheckoutSession" /\ loc[p].status = 200 =>
         ToMinor(loc[p].body.totalAmount) = sessions[loc[p].body.id].quoted

\* the cart of 4498 minor units has been priced with a 10% coupon at 4048, and
\* the response carries that total
C11_Witness ==
  \E p \in Procs :
    /\ pc[p] = "respond" /\ loc[p].op = "createCheckoutSession" /\ loc[p].status = 200
    /\ LET s == sessions[loc[p].body.id]
       IN  /\ Len(s.products) = 2
           /\ LineSum(s.products, 1) = 4498
           /\ s.percent_off = 10
           /\ ToMinor(loc[p].body.totalAmount) = 4048

\* C12: for every now >= expirationDate, the boundary now = expirationDate
\* included, the expiry test of validateCoupon on an active coupon deactivates
\* it, persists that and fails with Expired (unless the store fails)
C12_ExpiredFromExpiration ==
  [][ \A p \in Procs :
        /\ pc[p] = "vc_check" /\ VcCheck(p)
        /\ loc[p].doc.expirationDate <= now
        /\ loc'[p].status # 500
        => /\ loc'[p].body.message = "Coupon expired"
           /\ NoActive(coupons', loc[p].doc.code) ]_vars

\* C13: a checkout with a valid cart whose coupon code matches no active coupon
\* of the requesting user is not rejected for it: the only answer without a
\* session is the server error of a failed gateway, and otherwise the session
\* is created with no discount and the total the handler goes on to return is
\* the undiscounted one
C13_UnmatchedCodeIgnored ==
  [][ \A p \in Procs :
        pc[p] = "idle" /\ pc'[p] # "idle" /\ loc'[p].op = "createCheckoutSession" =>
          IF sessions' = sessions
          THEN loc'[p] = CheckoutError
          ELSE \A u \in Users, products \in InputsOf(Carts), code \in 1..nextCode :
                 /\ sessions'[Len(sessions')].userId = u
                 /\ sessions'[Len(sessions')].couponCode = code
                 /\ sessions'[Len(sessions')].products = Snapshot(products.items)
                 /\ ~ \E c \in coupons : c.code = code /\ c.userId = u /\ c.isActive
                 /\ CreateCheckoutSession(p, u, products, code)
                 => LET T == LineSum(products.items, 1)
                    IN  /\ Len(sessions') = Len(sessions) + 1
                        /\ sessions'[Len(sessions')].percent_off = 0
                        /\ sessions'[Len(sessions')].amount_total = T
                        /\ sessions'[Len(sessions')].quoted = T
                        /\ \/ pc'[p] = "respond" /\ loc'[p] = CheckoutOk(Len(sessions'), T)
                           \/ pc'[p] = "cnc_delete" /\ loc'[p].total = T ]_vars

\* a checkout that named the active coupon of another user has been answered
\* with success and the undiscounted total
C13_Witness ==
  \E p \in Procs :
    /\ pc[p] = "respond" /\ loc[p].op = "createCheckoutSession" /\ loc[p].status = 200
    /\ LET s == sessions[loc[p].body.id]
       IN  /\ s.couponCode # NoCode
           /\ s.percent_off = 0
           /\ ToMinor(loc[p].body.totalAmount) = LineSum(s.products, 1)
           /\ \E c \in coupons : c.code = s.couponCode /\ c.userId # s.userId /\ c.isActive

\* C14: a checkout whose products is an empty sequence or not a sequence is
\* answered 400 at once; no gateway session is created and the Coupon and Order
\* stores are unchanged
C14_InvalidProductsRejected ==
  [][ \A p \in Procs, u \in Users, products \in ProductInputs, code \in 0..nextCode :
        /\ (~products.isArray \/ Len(products.items) = 0)
        /\ CreateCheckoutSession(p, u, products, code)
        => /\ pc'[p] = "respond"
           /\ loc'[p].op = "createCheckoutSession" /\ loc'[p].status = 400
           /\ sessions' = sessions
           /\ coupons' = coupons /\ orders' = orders ]_vars

\* an empty products array has been answered 400 while the user holds a coupon
\* and no session exists
C14_Witness ==
  \E p \in Procs :
    /\ pc[p] = "respond" /\ loc[p].op = "createCheckoutSession" /\ loc[p].status = 400
    /\ coupons # {}
    /\ sessions = << >>

\* C15: in checkoutSuccess the coupon deactivation comes strictly before the
\* Order: a settlement of a coupon-using session goes through the deactivation
\* step first, a failure after it leaves the coupon deactivated and no Order
\* recorded by that settlement, and whenever an Order of a coupon-using session
\* is saved the coupon of that session is already inactive
C15_DeactivateBeforeOrder ==
  [][ /\ \A p \in Procs :
           /\ pc[p] = "idle" /\ pc'[p] = "cs_save" => sessions[loc'[p].sid].couponCode = NoCode
           /\ pc[p] = "cs_save" /\ loc'[p] = SettleError =>
                /\ orders' = orders /\ coupons' = coupons
                /\ \A c \in coupons' :
                     /\ c.code = sessions[loc[p].sid].couponCode
                     /\ c.userId = sessions[loc[p].sid].userId
                     => ~c.isActive
      /\ Len(orders') > Len(orders) =>
           LET s == sessions[orders'[Len(orders')].stripeSessionId]
           IN  \A c \in coupons : c.code = s.couponCode /\ c.userId = s.userId => ~c.isActive
    ]_vars

\* a settlement of a session that used a coupon has failed after its
\* deactivation step: the coupon is deactivated and no Order is recorded
C15_Witness ==
  \E p \in Procs, sid \in DOMAIN sessions :
    /\ pc[p] = "respond" /\ loc[p] = SettleError
    /\ sessions[sid].percent_off # 0
    /\ \E c \in coupons :
         c.code = sessions[sid].couponCode /\ c.userId = sessions[sid].userId /\ ~c.isActive
    /\ orders = << >>

\* C16: when the gateway fails to create the discount token or the session, the
\* checkout answers with a server error, creates no session and leaves the
\* Coupon store unchanged; a gift coupon is issued only by a handler whose
\* gateway session exists
C16_GatewayFailureNoGift ==
  [][ \A p \in Procs :
        /\ pc[p] = "idle" /\ Answers(p, "createCheckoutSession") /\ loc'[p].status # 400 =>
             /\ coupons' = coupons
             /\ \/ loc'[p] = CheckoutError /\ sessions' = sessions
                \/ loc'[p].status = 200 /\ Len(sessions') = Len(sessions) + 1
        /\ pc'[p] \in {"cnc_delete", "cnc_insert"} =>
             /\ loc'[p].sid \in DOMAIN sessions'
             /\ sessions'[loc'[p].sid].userId = loc'[p].userId
             /\ pc[p] = "idle" => coupons' = coupons ]_vars

\* the gateway has failed for a checkout whose total reaches the gift threshold:
\* server error in flight, no session, and the user's coupon still in the store
C16_Witness ==
  \E p \in Procs :
    /\ pc[p] = "respond" /\ loc[p] = CheckoutError
    /\ sessions = << >>
    /\ \E u \in Users : Seed(u) \in coupons

\* C17: a coupon's discount is granted to at most one checkout session: no two
\* sessions of one user were created with the discount of the same coupon
C17_OneSessionPerCoupon ==
  \A i, j \in DOMAIN sessions :
    /\ sessions[i].percent_off # 0 /\ sessions[j].percent_off # 0
    /\ sessions[i].couponCode = sessions[j].couponCode
    /\ sessions[i].userId = sessions[j].userId
    => i = j

\* the refresh token stored for the cookie's user is this cookie
IsStored(cookie) ==
  /\ redis[cookie.userId].set
  /\ now < redis[cookie.userId].expires
  /\ redis[cookie.userId].value = cookie

\* C18 (as stated): refreshToken issues an access token only for the refresh
\* token currently stored for its user, and every other refresh token that was
\* issued before is answered 401 with no access-token cookie (unless the store
\* fails)
C18_StaleAnswered401 ==
  [][ \A p \in Procs, cookie \in signed :
        RefreshToken(p, cookie) /\ loc'[p].body.error # "store" =>
          /\ loc'[p].status = 200 => IsStored(cookie)
          /\ ~IsStored(cookie) =>
               loc'[p].status = 401 /\ loc'[p].body.accessToken = NoToken ]_vars

\* C18 (amended): refreshToken issues an access token exactly for an unexpired
\* refresh token that equals the one stored for its user; an unexpired token
\* that is not the stored one is answered 401, an expired or forged one with a
\* server error, and neither sets an access-token cookie.  The stored token of
\* a user is the one of the signup or login that stored last, and a successful
\* logout with a token of that user removes it.
C18_RefreshOnlyStored ==
  [][ /\ \A p \in Procs, cookie \in Cookies :
           RefreshToken(p, cookie) /\ loc'[p].body.error # "store" =>
             /\ loc'[p].status = 200 <=> (cookie \in signed /\ now < cookie.exp /\ IsStored(cookie))
             /\ loc'[p].status = 200 =>
                  loc'[p].body.accessToken = AccessTokenOf(cookie.userId, now)
             /\ loc'[p].status # 200 => loc'[p].body.accessToken = NoToken
             /\ cookie \in signed /\ now < cookie.exp /\ ~IsStored(cookie) =>
                  loc'[p].status = 401
             /\ cookie \in signed /\ now >= cookie.exp => loc'[p].status = 500
             /\ redis' = redis
      /\ \A p \in Procs, cookie \in signed :
           Logout(p, cookie) /\ loc'[p].status = 200 => ~redis'[cookie.userId].set
      /\ \A u \in Users :
           redis'[u] # redis[u] =>
             \E p \in Procs :
               \/ /\ pc[p] = "auth_store" /\ pc'[p] = "respond" /\ loc[p].userId = u
                  /\ loc'[p].status \in {200, 201}
                  /\ redis'[u].set /\ redis'[u].value = loc[p].refreshToken
                  /\ loc'[p].body.refreshToken = loc[p].refreshToken
               \/ /\ pc[p] = "idle" /\ Answers(p, "logout") /\ loc'[p].status = 200
                  /\ ~redis'[u].set ]_vars

\* a user has logged in twice; the token of the earlier login, not yet expired,
\* has been presented and answered 401 while the later one is the stored one
C18_Witness ==
  \E p \in Procs, u \in Users :
    /\ pc[p] = "respond" /\ loc[p].op = "refreshToken"
    /\ loc[p].status = 401 /\ loc[p].body.message = "Invalid refresh token"
    /\ Cardinality(signed) = 2
    /\ \A t \in signed : t.userId = u /\ now < t.exp
    /\ redis[u].set /\ redis[u].value \in signed

\* C19: every entry of every cart has quantity >= 1
C19_QuantityAtLeastOne ==
  \A u \in Users : \A i \in DOMAIN cart[u] : cart[u][i].quantity >= 1

\* the entries of a cart that carry a product id
EntriesOf(items, productId) == { i \in DOMAIN items : items[i].id = productId }

\* C20: a cart holds at most one entry per product id; removeAllFromCart with a
\* product id removes exactly that product's entry and leaves the other entries
\* as they were, in their order, and without a product id it empties the cart;
\* no other user's cart changes
C20_OneEntryPerProduct ==
  [][ /\ \A u \in Users, productId \in Products :
           Cardinality(EntriesOf(cart'[u], productId)) <= 1
      /\ \A p \in Procs, u \in Users, productId \in Products \cup {NoProduct} :
           RemoveAllFromCart(p, u, productId) /\ loc'[p].status = 200 =>
             /\ \A v \in Users \ {u} : cart'[v] = cart[v]
             /\ loc'[p].body.cartItems = cart'[u]
             /\ IF productId = NoProduct
                THEN cart'[u] = << >>
                ELSE /\ EntriesOf(cart'[u], productId) = {}
                     /\ Len(cart'[u]) = Len(cart[u]) - Cardinality(EntriesOf(cart[u], productId))
                     /\ \A i \in DOMAIN cart[u] :
                          cart[u][i].id # productId =>
                            \E j \in DOMAIN cart'[u] :
                              /\ cart'[u][j] = cart[u][i]
                              /\ j = i - Cardinality({ k \in EntriesOf(cart[u], productId) : k < i })
    ]_vars

\* a removal has been answered with the cart it left, which holds a single
\* entry, of a product that was added twice
C20_Witness ==
  \E p \in Procs, u \in Users :
    /\ pc[p] = "respond" /\ loc[p].op = "removeAllFromCart" /\ loc[p].status = 200
    /\ loc[p].body.cartItems = cart[u]
    /\ Len(cart[u]) = 1 /\ cart[u][1].quantity = 2

=============================================================================
